---- MODULE Spec2Model ----
(***************************************************************************)
(* A model of src/main.py: the table extractor (extract_and_save_tables),  *)
(* the pagination driver (scrape_multiple_pages) and main.                 *)
(*                                                                         *)
(* Text is a sequence of characters (one-character strings).  A few fixed  *)
(* literals that no regular expression ever looks into (the base file      *)
(* name, the folder, the extension) are single tokens.                     *)
(*                                                                         *)
(* External libraries are modelled by what they do on the values the       *)
(* program hands them:                                                     *)
(*  - BeautifulSoup: a class attribute is a list of the whitespace         *)
(*    separated names (class="" gives the empty list); Tag.get returns the *)
(*    default only when the attribute is absent; a Tag is always truthy;   *)
(*    find_all returns descendants in document order.                      *)
(*  - pandas: DataFrame(rows, columns=c) pads short rows to the widest row *)
(*    and raises ValueError when len(c) differs from the widest row.       *)
(*  - os.path.exists / to_csv: a directory is a map from path to content;  *)
(*    to_csv replaces whatever is at the path it is given; a to_csv that   *)
(*    raises fails on opening the path and leaves the directory as it was. *)
(***************************************************************************)
EXTENDS Integers, Sequences, FiniteSets, TLC

VARIABLES
    tree,            \* soup.find_all("table") of the document being extracted
    base,            \* base_filename of the running extract_and_save_tables call
    files,           \* the output directory: path -> content
    pc,              \* position inside extract_and_save_tables
    i,               \* enumerate index of the table loop
    saved_count,     \* saved_count
    ret,             \* value returned by the last completed call
    log,             \* history: one entry per table handled in the running call
    dirBefore,       \* history: the paths present when the running call began
    calls,           \* number of extract_and_save_tables calls begun
    ioFails,         \* number of to_csv failures injected so far
    mode,            \* which caller drives the extractor
    dpc,             \* position inside the caller (main / scrape_multiple_pages)
    pages,           \* the pages argument of scrape_multiple_pages
    pageIdx,         \* index of the page being processed (1-based)
    all_tables_count,\* all_tables_count
    plog,            \* history: one entry per page (or per main run)
    total,           \* value returned by scrape_multiple_pages
    quit,            \* number of driver.quit() calls
    uncaught         \* an exception left main

vars == <<tree, base, files, pc, i, saved_count, ret, log, dirBefore, calls,
          ioFails, mode, dpc, pages, pageIdx, all_tables_count, plog, total,
          quit, uncaught>>

extractVars == <<tree, base, files, pc, i, saved_count, ret, log, dirBefore,
                 calls, ioFails>>
driverVars == <<mode, dpc, pages, pageIdx, all_tables_count, plog, total,
                quit, uncaught>>

-----------------------------------------------------------------------------
(* Bounds *)

MaxTables == 3
MaxCalls == 2
MaxRows == 2
MaxWidth == 2
MaxIoFails == 1
MaxPages == 3

-----------------------------------------------------------------------------
(* Characters and Python's string operations *)

LowerLetters == {"a", "b", "c", "d", "e", "l", "t"}
UpperLetters == {"A", "C"}
Digits == <<"0", "1", "2", "3", "4", "5", "6", "7", "8", "9">>
DigitSet == {Digits[k] : k \in 1..10}

Punctuation == {"!", "."}
Alphabet ==
    LowerLetters \cup UpperLetters \cup DigitSet \cup {"_", "-", " "}
        \cup Punctuation

\* the character classes \w and \s
Word == LowerLetters \cup UpperLetters \cup DigitSet \cup {"_"}
Space == {" "}

\* str.lower() on one character
LowerChar(c) == IF c = "A" THEN "a" ELSE IF c = "C" THEN "c" ELSE c

Lower(s) == [k \in 1..Len(s) |-> LowerChar(s[k])]

RECURSIVE Str(_)
\* str(n) for n >= 0, as f"{n}" formats it
Str(n) == IF n < 10 THEN <<Digits[n + 1]>>
          ELSE Str(n \div 10) \o <<Digits[(n % 10) + 1]>>

RECURSIVE LStrip(_, _)
\* the leading characters of class K removed
LStrip(s, K) ==
    IF s # <<>> /\ Head(s) \in K THEN LStrip(Tail(s), K) ELSE s

RECURSIVE RStrip(_, _)
\* the trailing characters of class K removed
RStrip(s, K) ==
    IF s # <<>> /\ s[Len(s)] \in K THEN RStrip(SubSeq(s, 1, Len(s) - 1), K)
    ELSE s

\* str.strip(): leading and trailing whitespace removed
Strip(s) == RStrip(LStrip(s, Space), Space)

\* str.strip("_")
StripUnderscores(s) == RStrip(LStrip(s, {"_"}), {"_"})

RECURSIVE SubRuns(_, _, _)
\* re.sub(r"[K]+", r, s): every maximal run of characters of class K becomes r
SubRuns(s, K, r) ==
    IF s = <<>> THEN <<>>
    ELSE IF Head(s) \in K
         THEN r \o SubRuns(LStrip(s, K), K, r)
         ELSE <<Head(s)>> \o SubRuns(Tail(s), K, r)

\* re.sub(r"[K]", r, s): every character of class K becomes the character r
SubEach(s, K, r) == [k \in 1..Len(s) |-> IF s[k] \in K THEN r ELSE s[k]]

\* re.sub(r"[K]", "", s): every character of class K removed
Remove(s, K) == SelectSeq(s, LAMBDA c : c \notin K)

\* lines 121-122: the caption text made part of the identifier
SanitizeCaption(text) ==
    SubRuns(Remove(Strip(text), Alphabet \ (Word \cup Space \cup {"-"})),
            {"-"} \cup Space, <<"_">>)

\* lines 166-167: the file-system safe identifier
SafeId(table_id) ==
    StripUnderscores(
        SubRuns(SubEach(Lower(table_id), Alphabet \ (Word \cup {"-"}), "_"),
                {"_"}, <<"_">>))

-----------------------------------------------------------------------------
(* Table nodes *)

\* cell.get_text(strip=True)
CellText(cell) == Strip(cell.text)

RowTexts(row) == [k \in 1..Len(row) |-> CellText(row[k])]

RECURSIVE Flatten(_)
Flatten(rows) == IF rows = <<>> THEN <<>> ELSE Head(rows) \o Flatten(Tail(rows))

IsTh(cell) == cell.tag = "th"

\* line 116, the class part: table.get("class", [""])[0]; an empty list has
\* no element 0 (IndexError)
ClassRaises(t) == t.class.present /\ t.class.names = <<>>
FirstClass(t) == IF t.class.present THEN t.class.names[1] ELSE <<>>

\* line 116 raises only when the or-chain reaches the class part
IdentRaises(t) == t.id = <<>> /\ ClassRaises(t)

\* lines 116-124
TableId(t, idx) ==
    LET plain == IF t.id # <<>> THEN t.id
                 ELSE IF FirstClass(t) # <<>> THEN FirstClass(t)
                 ELSE <<"t", "a", "b", "l", "e", "_">> \o Str(idx)
        caption_text == SanitizeCaption(t.caption.text)
    IN  IF t.caption.present /\ caption_text # <<>>
        THEN caption_text \o <<"_">> \o plain
        ELSE plain

\* table.find_all("tr") when the table has no tbody: header rows, then the rest
AllTr(t) ==
    [k \in 1..Len(t.thead.rows) |-> [cells |-> t.thead.rows[k], inThead |-> TRUE]]
    \o [k \in 1..Len(t.rows) |-> [cells |-> t.rows[k], inThead |-> FALSE]]

TbodyTr(t) == [k \in 1..Len(t.rows) |-> [cells |-> t.rows[k], inThead |-> FALSE]]

\* lines 128-131
TheadHeaders(t) ==
    IF t.thead.present THEN RowTexts(SelectSeq(Flatten(t.thead.rows), IsTh))
    ELSE <<>>

\* lines 134-137
FallbackHeaders(t) ==
    LET candidates == IF t.hasTbody THEN TbodyTr(t) ELSE AllTr(t)
    IN  IF candidates = <<>> THEN <<>> ELSE RowTexts(candidates[1].cells)

UsesFallback(t) == TheadHeaders(t) = <<>>

\* lines 127-137
Headers(t) == IF UsesFallback(t) THEN FallbackHeaders(t) ELSE TheadHeaders(t)

\* lines 157: the row is kept
RowKept(row_data, headers) ==
    Len(row_data) = Len(headers) \/ Len(row_data) > 0

\* A plausible slip: the row that supplied the header is taken out of the data
DataRowsSkippingHeaderRow(t) ==
    LET rows == IF t.hasTbody THEN TbodyTr(t) ELSE AllTr(t)
        body == SelectSeq(rows, LAMBDA r : ~r.inThead)
        rest == IF UsesFallback(t) /\ body # <<>> THEN Tail(body) ELSE body
        all  == [k \in 1..Len(rest) |-> RowTexts(rest[k].cells)]
    IN  SelectSeq(all, LAMBDA d : RowKept(d, Headers(t)))

\* lines 144-158
DataRows(t) ==
    LET rows == IF t.hasTbody THEN TbodyTr(t) ELSE AllTr(t)
        body == SelectSeq(rows, LAMBDA r : ~r.inThead)
        all  == [k \in 1..Len(body) |-> RowTexts(body[k].cells)]
    IN  SelectSeq(all, LAMBDA d : RowKept(d, Headers(t)))

Min(a, b) == IF a < b THEN a ELSE b

Widest(data) ==
    CHOOSE w \in {Len(data[k]) : k \in 1..Len(data)} :
        \A k \in 1..Len(data) : Len(data[k]) <= w

\* line 163: columns=headers[:len(data[0])]
Columns(headers, data) == SubSeq(headers, 1, Min(Len(headers), Len(data[1])))

\* line 163: pd.DataFrame raises when the widest row is not as wide as columns
BuildRaises(headers, data) == Widest(data) # Len(Columns(headers, data))

-----------------------------------------------------------------------------
(* File names *)

Ext == <<".csv">>

\* lines 168-169
FilePath(folder_path, base_filename, safe_id) ==
    <<folder_path>> \o base_filename \o <<"_">> \o safe_id \o Ext

\* A plausible slip: the counter starts one too high
CandidateOffByOne(original_file_path, counter) ==
    SubSeq(original_file_path, 1, Len(original_file_path) - 1)
        \o <<"_">> \o Str(counter + 1) \o Ext

\* lines 175-176: os.path.splitext, then f"{name}_{counter}{ext}"
Candidate(original_file_path, counter) ==
    SubSeq(original_file_path, 1, Len(original_file_path) - 1)
        \o <<"_">> \o Str(counter) \o Ext

RECURSIVE Probe(_, _, _, _)
\* lines 174-177: the while loop
Probe(dir, original_file_path, file_path, counter) ==
    IF file_path \in dir
    THEN Probe(dir, original_file_path,
               Candidate(original_file_path, counter), counter + 1)
    ELSE file_path

\* A plausible slip: the existence check is left out
UniquePathUnchecked(dir, file_path) == file_path

\* lines 172-177
UniquePath(dir, file_path) == Probe(dir, file_path, file_path, 1)

\* line 179: to_csv creates or replaces the file at file_path
WriteFile(dir, file_path, content) ==
    [p \in DOMAIN dir \cup {file_path} |->
        IF p = file_path THEN content ELSE dir[p]]

-----------------------------------------------------------------------------
(* Inputs *)

Folder == "results/"
BaseName == <<"premier_league_stats">>

Absent == [present |-> FALSE, text |-> <<>>]
NoClass == [present |-> FALSE, names |-> <<>>]
NoThead == [present |-> FALSE, rows |-> <<>>]

HeadRow(tags) ==
    [c \in 1..Len(tags) |-> [tag |-> tags[c], text |-> <<"h", Digits[c + 1]>>]]

BodyRow(r, w) ==
    [c \in 1..w |->
        [tag  |-> IF c = 1 THEN "th" ELSE "td",
         text |-> <<" ", "x", Digits[r + 1], Digits[c + 1], " ">>]]

BodyRows(widths) == [r \in 1..Len(widths) |-> BodyRow(r, widths[r])]

OneColumnThead == [present |-> TRUE, rows |-> <<HeadRow(<<"th">>)>>]

\* a well-formed table: one header cell, one row of one cell
Named(id, class, caption) ==
    [id |-> id, class |-> class, caption |-> caption,
     thead |-> OneColumnThead, hasTbody |-> TRUE, rows |-> BodyRows(<<1>>)]

IdChoices == {<<>>, <<"a">>, <<"A">>, <<"a", "!">>, <<"a", "_", "1">>}
ClassChoices ==
    {NoClass, [present |-> TRUE, names |-> <<>>],
     [present |-> TRUE, names |-> << <<"c">>, <<"d">> >>]}
CaptionChoices ==
    {Absent, [present |-> TRUE, text |-> <<"!">>],
     [present |-> TRUE, text |-> <<" ", "C", "!", " ", "-", "d", " ">>]}

\* every combination of id, class and caption
IdentTables ==
    {Named(id, cl, cap) : id \in IdChoices, cl \in ClassChoices,
                          cap \in CaptionChoices}

\* tables whose safe identifiers collide with each other and with suffixes
CollideTables ==
    {Named(<<"a">>, NoClass, Absent),
     Named(<<"A">>, NoClass, Absent),
     Named(<<"a", "_", "1">>, NoClass, Absent),
     Named(<<>>, [present |-> TRUE, names |-> <<>>], Absent)}

TheadChoices ==
    {NoThead, [present |-> TRUE, rows |-> <<>>]}
    \cup {[present |-> TRUE, rows |-> <<HeadRow(tags)>>] :
            tags \in UNION {[1..n -> {"th", "td"}] : n \in 1..MaxWidth}}

WidthSeqs == UNION {[1..n -> 0..MaxWidth] : n \in 0..MaxRows}

\* every combination of header section, body section and row widths
ShapeTables ==
    {[id |-> <<"a">>, class |-> NoClass, caption |-> Absent,
      thead |-> th, hasTbody |-> b, rows |-> BodyRows(ws)] :
        th \in TheadChoices, b \in BOOLEAN, ws \in WidthSeqs}

GoodTable == Named(<<"a">>, NoClass, Absent)

Trees ==
    {<<>>}
    \cup {<<t>> : t \in IdentTables}
    \cup UNION {[1..n -> CollideTables] : n \in 1..MaxTables}
    \cup {<<s, GoodTable>> : s \in ShapeTables}

Occupied == [rows |-> 0, cols |-> 0, call |-> 0, idx |-> 0]

PlainA == FilePath(Folder, BaseName, <<"a">>)
PlainA1 == FilePath(Folder, BaseName, <<"a", "_", "1">>)

\* the output directory before the first call: empty, or left by earlier runs
InitDirs(t) ==
    IF t \in UNION {[1..n -> CollideTables] : n \in 1..MaxTables}
    THEN {[p \in S |-> Occupied] : S \in SUBSET {PlainA, PlainA1}}
    ELSE {[p \in {} |-> Occupied]}

-----------------------------------------------------------------------------
(* extract_and_save_tables *)

Entry(idx, outcome, table_id, headers, data, path, plain, nrows, ncols) ==
    [idx |-> idx, outcome |-> outcome, table_id |-> table_id,
     headers |-> headers, data |-> data, path |-> path, plain |-> plain,
     nrows |-> nrows, ncols |-> ncols]

\* A plausible slip: the count goes up for every table that had data
CountAfterAlways(count, outcome) == count + 1

\* line 181 (and its absence on every other path)
CountAfter(count, outcome) == IF outcome = "written" THEN count + 1 ELSE count

\* lines 106-110
NoTables ==
    /\ pc = "called"
    /\ tree = <<>>
    /\ ret' = 0
    /\ pc' = "returned"
    /\ UNCHANGED <<tree, base, files, i, saved_count, log, dirBefore, calls,
                   ioFails>>
    /\ UNCHANGED driverVars

\* lines 106-114
StartLoop ==
    /\ pc = "called"
    /\ tree # <<>>
    /\ saved_count' = 0
    /\ i' = 0
    /\ pc' = "loop"
    /\ UNCHANGED <<tree, base, files, ret, log, dirBefore, calls, ioFails>>
    /\ UNCHANGED driverVars

\* lines 114-186: one pass of the loop body
ProcessTable ==
    /\ pc = "loop"
    /\ i < Len(tree)
    /\ LET t == tree[i + 1] IN
       IF IdentRaises(t)
       THEN \* line 116 raises outside the try: the exception leaves the call
            /\ pc' = "raised"
            /\ log' = Append(log, Entry(i, "raised", <<>>, <<>>, <<>>, <<>>, <<>>, 0, 0))
            /\ UNCHANGED <<files, i, saved_count, ioFails>>
       ELSE LET table_id == TableId(t, i)
                headers == Headers(t)
                data == DataRows(t)
            IN
            /\ pc' = "loop"
            /\ i' = i + 1
            /\ IF headers = <<>>
               THEN \* lines 139-141
                    /\ log' = Append(log, Entry(i, "skip_header", table_id,
                                                headers, <<>>, <<>>, <<>>, 0, 0))
                    /\ UNCHANGED <<files, saved_count, ioFails>>
               ELSE IF data = <<>>
               THEN \* lines 185-186
                    /\ log' = Append(log, Entry(i, "skip_rows", table_id,
                                                headers, data, <<>>, <<>>, 0, 0))
                    /\ UNCHANGED <<files, saved_count, ioFails>>
               ELSE IF BuildRaises(headers, data)
               THEN \* line 163 raises, lines 183-184 catch
                    /\ log' = Append(log, Entry(i, "build_error", table_id,
                                                headers, data, <<>>, <<>>, 0, 0))
                    /\ UNCHANGED <<files, saved_count, ioFails>>
               ELSE LET plain == FilePath(Folder, base, SafeId(table_id))
                        file_path == UniquePath(DOMAIN files, plain)
                        nrows == Len(data)
                        ncols == Len(Columns(headers, data))
                    IN
                    \E fail \in IF ioFails < MaxIoFails THEN BOOLEAN ELSE {FALSE} :
                       IF fail
                       THEN \* line 179 raises, lines 183-184 catch
                            /\ log' = Append(log, Entry(i, "write_error", table_id,
                                                 headers, data, <<>>, plain, 0, 0))
                            /\ ioFails' = ioFails + 1
                            /\ saved_count' = CountAfter(saved_count, "write_error")
                            /\ UNCHANGED files
                       ELSE \* lines 179-181
                            /\ files' = WriteFile(files, file_path,
                                          [rows |-> nrows, cols |-> ncols,
                                           call |-> calls, idx |-> i])
                            /\ log' = Append(log, Entry(i, "written", table_id,
                                          headers, data, file_path, plain,
                                          nrows, ncols))
                            /\ saved_count' = CountAfter(saved_count, "written")
                            /\ UNCHANGED ioFails
    /\ UNCHANGED <<tree, base, ret, dirBefore, calls>>
    /\ UNCHANGED driverVars

\* lines 188-189
Return ==
    /\ pc = "loop"
    /\ i = Len(tree)
    /\ ret' = saved_count
    /\ pc' = "returned"
    /\ UNCHANGED <<tree, base, files, i, saved_count, log, dirBefore, calls,
                   ioFails>>
    /\ UNCHANGED driverVars

\* a caller invokes extract_and_save_tables(soup, base_filename, folder_path)
Invoke(soup_tables, base_filename) ==
    /\ tree' = soup_tables
    /\ base' = base_filename
    /\ pc' = "called"
    /\ log' = <<>>
    /\ dirBefore' = DOMAIN files
    /\ calls' = calls + 1
    /\ UNCHANGED <<files, i, saved_count, ret, ioFails>>

-----------------------------------------------------------------------------
(* The extractor run on its own: repeated calls on one tree *)

DriverIdle ==
    /\ dpc = "none" /\ pages = <<>> /\ pageIdx = 0 /\ all_tables_count = 0
    /\ plog = <<>> /\ total = -1 /\ quit = 0 /\ uncaught = FALSE

Init ==
    /\ mode = "extract"
    /\ DriverIdle
    /\ tree \in Trees
    /\ base = BaseName
    /\ files \in InitDirs(tree)
    /\ pc = "idle"
    /\ i = 0
    /\ saved_count = 0
    /\ ret = -1
    /\ log = <<>>
    /\ dirBefore = {}
    /\ calls = 0
    /\ ioFails = 0

\* extract_and_save_tables is called (again) on the same tree
Call ==
    /\ mode = "extract"
    /\ pc \in {"idle", "returned", "raised"}
    /\ calls < MaxCalls
    /\ Invoke(tree, base)
    /\ UNCHANGED driverVars

Next == Call \/ NoTables \/ StartLoop \/ ProcessTable \/ Return

Spec == Init /\ [][Next]_vars

-----------------------------------------------------------------------------
(* The callers: main and scrape_multiple_pages.  The browser's answers     *)
(* (a navigation that fails, a wait that times out, the markup served) are *)
(* chosen freely; every exception the libraries raise is an Exception.     *)

PageNumbers == {1, 2}
PageLists == UNION {[1..n -> PageNumbers] : n \in 0..MaxPages}

RaisingTable == Named(<<>>, [present |-> TRUE, names |-> <<>>], Absent)
NoHeaderTable ==
    [id |-> <<"a">>, class |-> NoClass, caption |-> Absent,
     thead |-> NoThead, hasTbody |-> TRUE, rows |-> <<>>]

\* the table nodes a rendered page may hold
PageTrees ==
    {<<>>, <<GoodTable>>, <<GoodTable, GoodTable>>,
     <<NoHeaderTable, RaisingTable, GoodTable>>}

\* line 57: the default of base_filename
PagesBaseName == <<"premier_league">>

\* line 93: f"{base_filename}_page_{page_num}"
PageBase(base_filename, page_num) ==
    base_filename \o <<"_page_">> \o Str(page_num)

PageEntry(page_num) ==
    [page |-> page_num, nav |-> "ok", wait |-> "none", source |-> "none",
     extracted |-> FALSE, result |-> "pending", count |-> 0]

Last(seq) == seq[Len(seq)]
SetLast(seq, e) == [seq EXCEPT ![Len(seq)] = e]

InitDriver ==
    /\ mode \in {"main", "pages"}
    /\ pages \in IF mode = "pages" THEN PageLists ELSE {<<>>}
    /\ dpc = "start"
    /\ pageIdx = 0
    /\ all_tables_count = 0
    /\ plog = <<>>
    /\ total = -1
    /\ quit = 0
    /\ uncaught = FALSE
    /\ tree = <<>>
    /\ base = <<>>
    /\ files = [p \in {} |-> Occupied]
    /\ pc = "idle"
    /\ i = 0
    /\ saved_count = 0
    /\ ret = -1
    /\ log = <<>>
    /\ dirBefore = {}
    /\ calls = 0
    /\ ioFails = 0

\* A plausible slip: the handler ends the program without the finally block
MainOnErrorNoFinally == "done"

\* lines 261-264: where control goes once the except clause has run
MainOnError == "finally"

\* A plausible slip: a timed-out page is skipped in main too
AfterTimeoutAlwaysSkip(m) == "skip"

\* lines 233-234 (main: fall through) and lines 83-85 (pages: continue)
AfterTimeout(m) == IF m = "main" THEN "source" ELSE "skip"

\* A plausible slip: the page's count replaces the running total
AddCountOverwrite(count, page_tables) == page_tables

\* line 96
AddCount(count, page_tables) == count + page_tables

\* lines 215-218: the folder and the browser, before the try
MainLaunch ==
    /\ mode = "main" /\ dpc = "start"
    /\ \E ok \in BOOLEAN :
         IF ok THEN /\ dpc' = "get"
                    /\ plog' = <<PageEntry(0)>>
                    /\ UNCHANGED uncaught
               ELSE /\ dpc' = "crashed"
                    /\ uncaught' = TRUE
                    /\ UNCHANGED plog
    /\ UNCHANGED <<mode, pages, pageIdx, all_tables_count, total, quit>>
    /\ UNCHANGED extractVars

\* line 223
MainGet ==
    /\ mode = "main" /\ dpc = "get"
    /\ \E ok \in BOOLEAN :
         IF ok THEN /\ dpc' = "consent"
                    /\ UNCHANGED plog
               ELSE /\ dpc' = MainOnError
                    /\ plog' = SetLast(plog, [Last(plog) EXCEPT !.nav = "error",
                                                              !.result = "error"])
    /\ UNCHANGED <<mode, pages, pageIdx, all_tables_count, total, quit, uncaught>>
    /\ UNCHANGED extractVars

\* lines 24-54, called at lines 76 and 226: every failure is swallowed
HandleConsentPopup ==
    /\ mode \in {"main", "pages"} /\ dpc = "consent"
    /\ dpc' = "wait"
    /\ UNCHANGED <<mode, pages, pageIdx, all_tables_count, plog, total, quit,
                   uncaught>>
    /\ UNCHANGED extractVars

\* lines 229-234
MainWait ==
    /\ mode = "main" /\ dpc = "wait"
    /\ \E outcome \in {"found", "timeout", "error"} :
         /\ dpc' = IF outcome = "found" THEN "source"
                   ELSE IF outcome = "timeout" THEN AfterTimeout(mode)
                   ELSE MainOnError
         /\ plog' = SetLast(plog,
                [Last(plog) EXCEPT !.wait = outcome,
                    !.result = IF outcome = "error" THEN "error" ELSE @])
    /\ UNCHANGED <<mode, pages, pageIdx, all_tables_count, total, quit, uncaught>>
    /\ UNCHANGED extractVars

\* lines 237-243: the markup is read and parsed, the extractor is called
MainSource ==
    /\ mode = "main" /\ dpc = "source"
    /\ \/ \E t \in PageTrees :
            /\ Last(plog).wait = "found" => t # <<>>
            /\ Invoke(t, BaseName)
            /\ dpc' = "extract"
            /\ plog' = SetLast(plog, [Last(plog) EXCEPT !.source = "ok",
                                                      !.extracted = TRUE])
       \/ /\ dpc' = MainOnError
          /\ plog' = SetLast(plog, [Last(plog) EXCEPT !.source = "error",
                                                    !.result = "error"])
          /\ UNCHANGED extractVars
    /\ UNCHANGED <<mode, pages, pageIdx, all_tables_count, total, quit, uncaught>>

\* lines 243-259: the extractor returned
MainExtractDone ==
    /\ mode = "main" /\ dpc = "extract" /\ pc = "returned"
    /\ dpc' = "finally"
    /\ plog' = SetLast(plog, [Last(plog) EXCEPT !.result = "ok", !.count = ret])
    /\ UNCHANGED <<mode, pages, pageIdx, all_tables_count, total, quit, uncaught>>
    /\ UNCHANGED extractVars

\* lines 243, 261-262: the extractor raised
MainExtractRaised ==
    /\ mode = "main" /\ dpc = "extract" /\ pc = "raised"
    /\ dpc' = MainOnError
    /\ plog' = SetLast(plog, [Last(plog) EXCEPT !.result = "error"])
    /\ UNCHANGED <<mode, pages, pageIdx, all_tables_count, total, quit, uncaught>>
    /\ UNCHANGED extractVars

\* lines 264-266
MainFinally ==
    /\ mode = "main" /\ dpc = "finally"
    /\ quit' = quit + 1
    /\ dpc' = "done"
    /\ UNCHANGED <<mode, pages, pageIdx, all_tables_count, plog, total, uncaught>>
    /\ UNCHANGED extractVars

\* lines 59-62
PagesStart ==
    /\ mode = "pages" /\ dpc = "start"
    /\ all_tables_count' = 0
    /\ pageIdx' = 1
    /\ dpc' = "loop"
    /\ UNCHANGED <<mode, pages, plog, total, quit, uncaught>>
    /\ UNCHANGED extractVars

\* lines 98-99, then the next pass of the for loop
PageFailed(entry) ==
    /\ plog' = SetLast(plog, [entry EXCEPT !.result = "error"])
    /\ pageIdx' = pageIdx + 1
    /\ dpc' = "loop"

\* lines 62-73
PageGet ==
    /\ mode = "pages" /\ dpc = "loop" /\ pageIdx <= Len(pages)
    /\ \E ok \in BOOLEAN :
         IF ok THEN /\ plog' = Append(plog, PageEntry(pages[pageIdx]))
                    /\ dpc' = "consent"
                    /\ UNCHANGED pageIdx
               ELSE /\ plog' = Append(plog,
                          [PageEntry(pages[pageIdx]) EXCEPT !.nav = "error",
                                                            !.result = "error"])
                    /\ pageIdx' = pageIdx + 1
                    /\ dpc' = "loop"
    /\ UNCHANGED <<mode, pages, all_tables_count, total, quit, uncaught>>
    /\ UNCHANGED extractVars

\* lines 79-85
PageWait ==
    /\ mode = "pages" /\ dpc = "wait"
    /\ \E outcome \in {"found", "timeout", "error"} :
         LET entry == [Last(plog) EXCEPT !.wait = outcome] IN
         IF outcome = "error" THEN PageFailed(entry)
         ELSE IF outcome = "timeout" /\ AfterTimeout(mode) = "skip"
         THEN /\ plog' = SetLast(plog, [entry EXCEPT !.result = "timeout"])
              /\ pageIdx' = pageIdx + 1
              /\ dpc' = "loop"
         ELSE /\ plog' = SetLast(plog, entry)
              /\ dpc' = "source"
              /\ UNCHANGED pageIdx
    /\ UNCHANGED <<mode, pages, all_tables_count, total, quit, uncaught>>
    /\ UNCHANGED extractVars

\* lines 87-95
PageSource ==
    /\ mode = "pages" /\ dpc = "source"
    /\ \/ \E t \in PageTrees :
            /\ Last(plog).wait = "found" => t # <<>>
            /\ Invoke(t, PageBase(PagesBaseName, pages[pageIdx]))
            /\ dpc' = "extract"
            /\ plog' = SetLast(plog, [Last(plog) EXCEPT !.source = "ok",
                                                      !.extracted = TRUE])
            /\ UNCHANGED pageIdx
       \/ /\ PageFailed([Last(plog) EXCEPT !.source = "error"])
          /\ UNCHANGED extractVars
    /\ UNCHANGED <<mode, pages, all_tables_count, total, quit, uncaught>>

\* lines 91-96: the extractor returned
PageExtractDone ==
    /\ mode = "pages" /\ dpc = "extract" /\ pc = "returned"
    /\ all_tables_count' = AddCount(all_tables_count, ret)
    /\ plog' = SetLast(plog, [Last(plog) EXCEPT !.result = "ok", !.count = ret])
    /\ pageIdx' = pageIdx + 1
    /\ dpc' = "loop"
    /\ UNCHANGED <<mode, pages, total, quit, uncaught>>
    /\ UNCHANGED extractVars

\* lines 91, 98-99: the extractor raised
PageExtractRaised ==
    /\ mode = "pages" /\ dpc = "extract" /\ pc = "raised"
    /\ PageFailed(Last(plog))
    /\ UNCHANGED <<mode, pages, all_tables_count, total, quit, uncaught>>
    /\ UNCHANGED extractVars

\* line 101
PagesReturn ==
    /\ mode = "pages" /\ dpc = "loop" /\ pageIdx > Len(pages)
    /\ total' = all_tables_count
    /\ dpc' = "done"
    /\ UNCHANGED <<mode, pages, pageIdx, all_tables_count, plog, quit, uncaught>>
    /\ UNCHANGED extractVars

NextDriver ==
    \/ MainLaunch \/ MainGet \/ HandleConsentPopup \/ MainWait \/ MainSource
    \/ MainExtractDone \/ MainExtractRaised \/ MainFinally
    \/ PagesStart \/ PageGet \/ PageWait \/ PageSource \/ PageExtractDone
    \/ PageExtractRaised \/ PagesReturn
    \/ NoTables \/ StartLoop \/ ProcessTable \/ Return

SpecDriver == InitDriver /\ [][NextDriver]_vars

-----------------------------------------------------------------------------
(* Properties of extract_and_save_tables, checked under Spec *)

WrittenAt(k) == log[k].outcome = "written"

\* <name>_<n>.csv for the name <name>.csv, as the naming convention has it
WithSuffix(plain, n) ==
    SubSeq(plain, 1, Len(plain) - 1) \o <<"_">> \o Str(n) \o <<".csv">>

\* the paths present just before the k-th table of the running call is handled
ExistingBefore(k) ==
    dirBefore \cup {log[j].path : j \in {j \in 1..(k - 1) : WrittenAt(j)}}

\* C1: no step removes a file or changes the content of one that exists, and
\* a file that appears is the one the handled table was written to, under
\* its plain name or, when that name exists, under it with a numeric suffix.
C1_NeverOverwrites ==
    [][/\ \A p \in DOMAIN files : p \in DOMAIN files' /\ files'[p] = files[p]
       /\ \A p \in DOMAIN files' \ DOMAIN files :
            /\ log' # <<>>
            /\ Last(log').outcome = "written"
            /\ Last(log').path = p
            /\ \/ p = Last(log').plain
               \/ /\ Last(log').plain \in DOMAIN files
                  /\ \E n \in 1..Cardinality(DOMAIN files) :
                        p = WithSuffix(Last(log').plain, n)]_vars

\* C1 witness: a second run on the same tree wrote a suffixed sibling
C1_Witness ==
    /\ calls = 2
    /\ dirBefore # {}
    /\ \E k \in 1..Len(log) :
          /\ WrittenAt(k)
          /\ log[k].plain \in dirBefore
          /\ log[k].path # log[k].plain

\* C2 (as claimed): a table with a non-empty header and at least one row with
\* cells gives exactly one file, with as many data rows as there are such
\* rows and as many columns as the header has entries (a failing to_csv set
\* aside).
C2_OneFilePerTable ==
    \A k \in 1..Len(log) :
        (log[k].headers # <<>> /\ log[k].data # <<>>
            /\ log[k].outcome # "write_error")
        => /\ WrittenAt(k)
           /\ log[k].path \in DOMAIN files \ ExistingBefore(k)
           /\ files[log[k].path].rows = Len(log[k].data)
           /\ files[log[k].path].cols = Len(log[k].headers)

\* C3 (as claimed): an error raised while a table is handled leaves the call
\* running: the loop goes on to the later tables and the call returns.
C3_ErrorsAreIsolated ==
    /\ \A k \in 1..Len(log) :
          log[k].outcome \in {"raised", "build_error", "write_error"}
          => pc \in {"loop", "returned"}
    /\ pc = "returned" /\ tree # <<>> => Len(log) = Len(tree)

EarlierSame(k) == {j \in 1..(k - 1) : WrittenAt(j) /\ log[j].plain = log[k].plain}

\* tables of the running call written under the same plain name as the k-th
SameName(k) == {j \in 1..Len(log) : WrittenAt(j) /\ log[j].plain = log[k].plain}

\* C5 (as claimed): of the written tables of one call that share a safe
\* identifier, the first goes to the plain name, the next to _1, then _2, ...
C5_SuffixesInOrder ==
    \A k \in 1..Len(log) :
        (WrittenAt(k) /\ Cardinality(SameName(k)) >= 2) =>
            log[k].path = IF EarlierSame(k) = {} THEN log[k].plain
                          ELSE WithSuffix(log[k].plain, Cardinality(EarlierSame(k)))

\* the first of plain, plain_1, plain_2, ... that is not in dir
FirstFree(dir, plain) ==
    IF plain \notin dir THEN plain
    ELSE LET n == CHOOSE n \in 1..(Cardinality(dir) + 1) :
                    /\ WithSuffix(plain, n) \notin dir
                    /\ \A m \in 1..(n - 1) : WithSuffix(plain, m) \in dir
         IN  WithSuffix(plain, n)

\* the names plain, plain_1, ... are used by nothing but the tables sharing plain
NamesFree(k) ==
    \A n \in 0..Len(log) :
        LET name == IF n = 0 THEN log[k].plain ELSE WithSuffix(log[k].plain, n)
        IN  /\ name \notin dirBefore
            /\ \A j \in 1..(k - 1) :
                  (WrittenAt(j) /\ log[j].plain # log[k].plain)
                  => log[j].path # name

\* C5 (amended): the written tables of one call go to pairwise distinct
\* paths, each to the first of plain, plain_1, plain_2, ... that does not
\* exist when it is written; that is plain, _1, _2, ... in document order
\* when none of these names exists before the call or is taken by a table
\* with another safe identifier.
C5_FirstFreeName ==
    \A k \in 1..Len(log) :
        WrittenAt(k) =>
            /\ log[k].plain = FilePath(Folder, base, SafeId(log[k].table_id))
            /\ log[k].path = FirstFree(ExistingBefore(k), log[k].plain)
            /\ \A j \in 1..(k - 1) : WrittenAt(j) => log[j].path # log[k].path
            /\ NamesFree(k) =>
                  log[k].path =
                      IF EarlierSame(k) = {} THEN log[k].plain
                      ELSE WithSuffix(log[k].plain, Cardinality(EarlierSame(k)))

\* C5 witness: two tables with the same safe identifier written in one call,
\* the second under the _1 name
C5_Witness ==
    \E k \in 1..Len(log) :
        /\ WrittenAt(k)
        /\ EarlierSame(k) # {}
        /\ log[k].path = WithSuffix(log[k].plain, 1)

\* the identifier as the precedence rule states it
ClaimedId(t, idx) ==
    LET fallback == IF t.id # <<>> THEN t.id
                    ELSE IF t.class.names # <<>> /\ t.class.names[1] # <<>>
                         THEN t.class.names[1]
                         ELSE <<"t", "a", "b", "l", "e", "_">> \o Str(idx)
    IN  IF t.caption.present /\ SanitizeCaption(t.caption.text) # <<>>
        THEN SanitizeCaption(t.caption.text) \o <<"_">> \o fallback
        ELSE fallback

\* C9 (as claimed): every table handled gets the identifier of the
\* precedence rule: id, else first class name, else table_<i>, with the
\* sanitized caption in front when there is one.
C9_IdentifierPrecedence ==
    \A k \in 1..Len(log) :
        /\ log[k].outcome # "raised"
        /\ log[k].table_id = ClaimedId(tree[log[k].idx + 1], log[k].idx)

\* the table holds a single row
SingleRow(t) == Len(t.thead.rows) + Len(t.rows) = 1

\* the row that supplies the fallback header lies in the header section
FallbackRowInThead(t) == ~t.hasTbody /\ t.thead.rows # <<>>

\* C10 (as claimed): a header taken from the first row leaves that row among
\* the data: the first data row repeats the header, and a table of that row
\* alone is written with one data row (a failing to_csv set aside).
C10_FallbackRowKept ==
    \A k \in 1..Len(log) :
        LET t == tree[log[k].idx + 1] IN
        (log[k].outcome # "raised" /\ UsesFallback(t) /\ log[k].headers # <<>>)
        => /\ log[k].data # <<>>
           /\ log[k].data[1] = log[k].headers
           /\ SingleRow(t) =>
                 \/ log[k].outcome = "write_error"
                 \/ WrittenAt(k) /\ log[k].nrows = 1

\* C10 (amended): the same, unless the first row lies in a header section
\* (a thead without th cells in a table without tbody): then it is skipped
\* like every header row, and a table of that row alone has no data rows
\* and is not written.
C10_FallbackRowKeptOutsideThead ==
    \A k \in 1..Len(log) :
        LET t == tree[log[k].idx + 1] IN
        (log[k].outcome # "raised" /\ UsesFallback(t) /\ log[k].headers # <<>>)
        => IF FallbackRowInThead(t)
           THEN /\ \A d \in 1..Len(log[k].data) :
                      log[k].data[d] # log[k].headers
                /\ SingleRow(t) => log[k].outcome = "skip_rows"
           ELSE /\ log[k].data # <<>>
                /\ log[k].data[1] = log[k].headers
                /\ SingleRow(t) =>
                      \/ log[k].outcome = "write_error"
                      \/ /\ WrittenAt(k)
                         /\ log[k].nrows = 1
                         /\ log[k].ncols = Len(log[k].headers)

\* C10 witness: a table of one row and no header section was written with
\* that row as header and as data
C10_Witness ==
    \E k \in 1..Len(log) :
        LET t == tree[log[k].idx + 1] IN
        /\ UsesFallback(t) /\ SingleRow(t) /\ ~FallbackRowInThead(t)
        /\ WrittenAt(k)
        /\ log[k].nrows = 1
        /\ log[k].data[1] = log[k].headers

-----------------------------------------------------------------------------
(* Properties of the callers, checked under SpecDriver *)

Settled(e) == e.result # "pending"

\* C6 (as claimed): after a wait that timed out the markup is still read and
\* handed to the extractor, in main and for every page.
C6_TimeoutProceeds ==
    \A k \in 1..Len(plog) :
        (plog[k].wait = "timeout" /\ Settled(plog[k]))
        => plog[k].source # "none"

\* C6 (amended): in main a wait that timed out is followed by reading the
\* markup and calling the extractor; in scrape_multiple_pages it ends the
\* page: no markup is read, nothing is extracted or counted, and the loop
\* goes on with the next page.
C6_TimeoutByCaller ==
    \A k \in 1..Len(plog) :
        plog[k].wait = "timeout" =>
            IF mode = "main"
            THEN /\ dpc = "source" \/ plog[k].source # "none"
                 /\ plog[k].source = "ok" => plog[k].extracted
            ELSE /\ plog[k].result = "timeout"
                 /\ plog[k].source = "none"
                 /\ ~plog[k].extracted
                 /\ plog[k].count = 0
                 /\ k = Len(plog) => (dpc \in {"loop", "done"} /\ pageIdx = k + 1)

\* C6 witness: a page timed out and the page after it was extracted
C6_Witness ==
    /\ mode = "pages"
    /\ \E k \in 1..Len(plog) :
          /\ plog[k].wait = "timeout"
          /\ k < Len(plog)
          /\ plog[k + 1].extracted
          /\ plog[k + 1].result = "ok"

RECURSIVE SumOk(_)
\* the counts of the pages that did not fail, added up
SumOk(entries) ==
    IF entries = <<>> THEN 0
    ELSE (IF Head(entries).result = "ok" THEN Head(entries).count ELSE 0)
         + SumOk(Tail(entries))

\* C7: the pages are attempted once each, in the order given; a page is
\* settled before the next begins and the extractor runs only inside its
\* page; the value returned is the sum of the extractor's counts over the
\* pages that did not fail.
C7_PagesInOrder ==
    mode = "pages" =>
        /\ Len(plog) <= Len(pages)
        /\ \A k \in 1..Len(plog) : plog[k].page = pages[k]
        /\ \A k \in 1..(Len(plog) - 1) : Settled(plog[k])
        /\ dpc \in {"consent", "wait", "source", "extract"} =>
              (Len(plog) = pageIdx /\ ~Settled(Last(plog)))
        /\ dpc = "loop" =>
              (Len(plog) = pageIdx - 1 /\ \A k \in 1..Len(plog) : Settled(plog[k]))
        /\ pc \in {"called", "loop"} => dpc = "extract"
        /\ all_tables_count = SumOk(SelectSeq(plog, Settled))
        /\ dpc = "done" =>
              /\ Len(plog) = Len(pages)
              /\ \A k \in 1..Len(plog) : Settled(plog[k])
              /\ total = SumOk(plog)

\* C7 witness: two pages, the first failed, the second returned a count
C7_Witness ==
    /\ mode = "pages"
    /\ dpc = "done"
    /\ Len(plog) = 2
    /\ plog[1].result = "error"
    /\ plog[2].result = "ok"
    /\ plog[2].count >= 1
    /\ total = plog[2].count

\* C8: once the browser is launched, main ends only after driver.quit() and
\* no exception leaves it, whatever navigation, consent handling, the wait
\* or the extractor raised; until then main can always take a step.
C8_BrowserReleased ==
    mode = "main" =>
        /\ dpc = "done" => (quit = 1 /\ ~uncaught)
        /\ quit = 1 => dpc = "done"
        /\ quit <= 1
        /\ uncaught => (dpc = "crashed" /\ plog = <<>>)
        /\ dpc \notin {"done", "crashed"} => ENABLED NextDriver

\* C8 witness: main ended after an error, with the browser released
C8_Witness ==
    /\ mode = "main"
    /\ dpc = "done"
    /\ quit = 1
    /\ Last(plog).result = "error"

====
